---- MODULE Spec2Model ----
(***************************************************************************)
(* Model of the bounded concurrent executor of the API runner:             *)
(* APIAutomation.__init__, make_request and run_async                      *)
(* (src/automation/api_automation.py), together with the shutdown signal   *)
(* handler installed by the command line (src/automation/utils.py,         *)
(* src/cli.py).                                                            *)
(*                                                                         *)
(* Every endpoint of the batch is one asyncio task ("unit").  A unit moves  *)
(* between the suspension points of bounded_request / make_request:        *)
(*   created  - task object made by gather, first step not yet run         *)
(*   waiting  - suspended in semaphore.acquire()                           *)
(*   woken    - given the slot by a release(), not yet resumed             *)
(*   pacing   - inside make_request, in asyncio.sleep(delay)               *)
(*   request  - inside make_request, awaiting the HTTP reply               *)
(*   backoff  - inside make_request, in asyncio.sleep(2 ** attempt)        *)
(*   done     - task finished (returned or raised)                         *)
(*   cancelled- task cancelled by the interpreter shutting down            *)
(*                                                                         *)
(* The other runners are modelled beside it: WebScraper                    *)
(* (src/automation/web_scraper.py), RPATasks (src/automation/rpa_tasks.py),*)
(* BrowserAutomation (src/automation/browser_automation.py) and the        *)
(* command line's main loop (src/cli.py).  A behaviour is about one of     *)
(* them, named by `component`; the variables of the others stay idle.      *)
(***************************************************************************)
EXTENDS Integers, Sequences, FiniteSets, TLC

\* ---------------------------------------------------------------- bounds
MaxBatch == 2
MaxConcurrency == 2
MaxRetry == 2
LongRetry == 4      \* retry limit of the single-endpoint ladder configurations
MaxPages == 2       \* pages a scraper run is asked for
MaxTasks == 2       \* tasks of a sequential runner
MaxRuns == 2        \* iterations of the daemon loop that are followed

\* ------------------------------------------------------- program constants
DefaultConcurrency == 5
DefaultRetry == 3
DefaultDelayMin == 1
DefaultDelayMax == 3

\* ------------------------------------------------------------ input values
\* A "method" value of an endpoint that is not a string (JSON null).
JsonNull == "<null>"

\* What Python's None is in a result list.
NoneValue == [none |-> TRUE]

SupportedMethods == {"GET", "POST", "PUT", "DELETE"}

\* str.upper() on the method names the inputs use.
Upper(m) ==
    CASE m = "get" -> "GET"
      [] m = "post" -> "POST"
      [] m = "put" -> "PUT"
      [] m = "delete" -> "DELETE"
      [] m = "patch" -> "PATCH"
      [] OTHER -> m

\* dict.get(key, default)
Get(d, key, default) == IF key \in DOMAIN d THEN d[key] ELSE default

\* The endpoint descriptors a batch is drawn from; descriptor i has url i.
EndpointsOf(u) ==
    { [url |-> u],                         \* no method: defaults to GET
      [url |-> u, method |-> "post"],
      [url |-> u, method |-> "PATCH"],     \* unsupported method
      [url |-> u, method |-> JsonNull] }   \* malformed descriptor

Batches ==
    UNION { { b \in [1..n -> UNION { EndpointsOf(u) : u \in 1..n }] :
                \A i \in 1..n : b[i].url = i } : n \in 0..MaxBatch }

DelayRanges == { <<1, 3>>, <<3, 1>> }

\* Configuration documents: all keys given, or only the endpoints given; one
\* unit with a long retry ladder; one unit on the host that can also time out.
Configs ==
    { [endpoints |-> b, concurrency |-> c, retry |-> r, delay_range |-> d] :
        b \in Batches, c \in (-1)..MaxConcurrency, r \in (-1)..MaxRetry,
        d \in DelayRanges }
    \cup { [endpoints |-> b] : b \in Batches }
    \cup { [concurrency |-> 1] }
    \cup { [endpoints |-> <<[url |-> 1]>>, concurrency |-> 1, retry |-> LongRetry,
            delay_range |-> <<1, 3>>] }
    \cup { [endpoints |-> <<[url |-> 0]>>, concurrency |-> 1, retry |-> MaxRetry,
            delay_range |-> <<1, 3>>] }

\* HTTP statuses a reply can carry, and the faults a request can raise.
Statuses == {200, 500}
Causes == {"ClientError"}

\* The host of url 0 is one that can time out as well.
FaultsOf(u) == IF u = 0 THEN Causes \cup {"TimeoutError"} ELSE Causes

VARIABLES
    component,     \* which runner the behaviour is about
    config,        \* the configuration document handed to __init__
    phase,         \* "config", "constructed", "running", "returned", "raised", "exited"
    endpoints,     \* self.endpoints
    concurrency,   \* self.concurrency
    retry_count,   \* self.retry_count
    delay_range,   \* self.delay_range
    value,         \* semaphore._value
    waiters,       \* semaphore._waiters, first in first out
    pc,            \* position of each unit's task
    attempt,       \* loop variable `attempt` of each unit's make_request
    opLog,         \* per unit, the result of every attempt made so far
    backoffs,      \* per unit, the delays of the backoff sleeps so far
    paces,         \* per unit, the range each pacing sleep so far was drawn from
    task,          \* per unit, how its task ended
    doneOrder,     \* the units in the order their tasks finished
    results,       \* the list run_async returns
    \* WebScraper
    ws_config,     \* the configuration handed to WebScraper.__init__
    scraper,       \* the object's fields
    ws_dry_run,    \* the dry_run argument of WebScraper.run
    ws_phase,      \* "idle", "config", "constructed", "pacing", "static", "async", "js", "returned", "raised"
    urls,          \* the list handle_pagination returned
    fetch,         \* per url: position, attempt, attempts so far, backoff sleeps, outcome
    ws_paces,      \* the range each pacing sleep of run was drawn from
    ws_results,    \* the list WebScraper.run returns
    \* RPATasks and BrowserAutomation
    tasks,         \* self.tasks
    dry_run,       \* the dry_run argument of run
    seq_phase,     \* "idle", "constructed", "running", "cleanup", "returned", "raised"
    cursor,        \* number of tasks the loop of run has taken
    performed,     \* the indices of the tasks whose operation was performed
    seq_results,   \* the local list `results` of run
    fs,            \* what the path the RPA tasks name is: "absent", "file", "dir"
    driver,        \* self.driver: "None", "live", "quit"
    quits,         \* calls of driver.quit() so far
    \* command line
    args,          \* the parsed arguments
    storage_type,  \* config['storage']['type'], or JsonNull when not given
    cli_pc,        \* "idle", "main", "call", "sleeping", "returned", "exited"
    runs,          \* calls of run_target that have ended
    effects,       \* what the calls of run_target did outside the program
    cli_results,   \* what the last call of run_target returned
    sessions,      \* the ClientSessions made so far, each "open" or "closed"
    \* social bots
    social_configs, \* config['social_bots']
    soc_attrs,     \* the attributes the SocialBots object has, by name
    soc_phase,     \* "idle", "config", "constructed", "running", "returned", "raised"
    soc_cursor,    \* Twitter tasks the loop of run_twitter_tasks has taken
    soc_results    \* the local list `results` of run_twitter_tasks

apiVars == <<config, phase, endpoints, concurrency, retry_count, delay_range,
             value, waiters, pc, attempt, opLog, backoffs, paces, task, doneOrder,
             results>>
wsVars == <<ws_config, scraper, ws_dry_run, ws_phase, urls, fetch, ws_paces, ws_results>>
seqVars == <<tasks, dry_run, seq_phase, cursor, performed, seq_results, fs, driver, quits>>
cliVars == <<args, storage_type, cli_pc, runs, effects, cli_results, sessions>>
socVars == <<social_configs, soc_attrs, soc_phase, soc_cursor, soc_results>>

vars == <<component, apiVars, wsVars, seqVars, cliVars, socVars>>

\* What a step of the API runner leaves alone.
notApi == <<component, wsVars, seqVars, cliVars, socVars>>

cfgVars == <<config, endpoints, concurrency, retry_count, delay_range>>

Units == 1..Len(endpoints)

\* ------------------------------------------------------------- records
SuccessRecord(url, status) == [url |-> url, status |-> status]
ErrorRecord(url, cause) == [url |-> url, error |-> cause]
Response(status) == [kind |-> "response", status |-> status, cause |-> ""]
Failure(cause) == [kind |-> "failure", status |-> 0, cause |-> cause]

Pending == [kind |-> "pending"]
Returned(v) == [kind |-> "return", value |-> v]
Raised(e) == [kind |-> "raise", exc |-> e]

IsSuccess(r) == DOMAIN r = {"url", "status"}
IsError(r) == "error" \in DOMAIN r

\* ---------------------------------------------------------------- Init
\* The API runner before construction; idle when the behaviour is about
\* another runner.
ApiInit ==
    /\ config \in (IF component = "api" THEN Configs ELSE {[endpoints |-> <<>>]})
    /\ phase = "config"
    /\ endpoints = <<>>
    /\ concurrency = 0
    /\ retry_count = 0
    /\ delay_range = <<0, 0>>
    /\ value = 0
    /\ waiters = <<>>
    /\ pc = <<>>
    /\ attempt = <<>>
    /\ opLog = <<>>
    /\ backoffs = <<>>
    /\ paces = <<>>
    /\ task = <<>>
    /\ doneOrder = <<>>
    /\ results = <<>>

\* APIAutomation.__init__: copies the configuration, validating nothing.
Construct ==
    /\ component = "api"
    /\ phase = "config"
    /\ phase' = "constructed"
    /\ endpoints' = Get(config, "endpoints", <<>>)
    /\ concurrency' = Get(config, "concurrency", DefaultConcurrency)
    /\ retry_count' = Get(config, "retry", DefaultRetry)
    /\ delay_range' = Get(config, "delay_range", <<DefaultDelayMin, DefaultDelayMax>>)
    /\ UNCHANGED <<config, value, waiters, pc, attempt, opLog, backoffs, paces, task, doneOrder, results>>
    /\ UNCHANGED notApi

\* ------------------------------------------------------------ semaphore
\* A limiter that never refuses a slot.
LockedNever == FALSE

\* asyncio.Semaphore.locked(): no free slot, or somebody is already queued.
Locked == value = 0 \/ waiters # <<>>

\* The unit that the next release() hands its slot to, if any.
HasWaiter == waiters # <<>>

\* --------------------------------------------------------- make_request
\* The comparison made against retry_count instead of retry_count - 1.
LastAttemptOffByOne(i) == ~(attempt[i] < retry_count)

\* `if attempt < self.retry_count - 1` is false: this was the last attempt.
LastAttempt(i) == ~(attempt[i] < retry_count - 1)

\* A delay that grows by one with every attempt.
BackoffDelayLinear(a) == a + 1

\* The delay of `await asyncio.sleep(2 ** attempt)`.
BackoffDelay(a) == 2 ^ a

\* Lines 72-73: `endpoint.get('method', 'GET').upper()`; a method that is not
\* a string has no upper() and the fault leaves make_request.
MethodIsString(i) == Get(endpoints[i], "method", "GET") # JsonNull
Method(i) == Upper(Get(endpoints[i], "method", "GET"))
Url(i) == endpoints[i].url

\* The slot given back twice when the task ends.
FinishReleasesTwice(i, out, v) ==
    /\ task' = [task EXCEPT ![i] = out]
    /\ doneOrder' = Append(doneOrder, i)
    /\ IF HasWaiter
       THEN /\ waiters' = Tail(waiters)
            /\ value' = v + 1
            /\ pc' = [pc EXCEPT ![i] = "done", ![Head(waiters)] = "woken"]
       ELSE /\ waiters' = waiters
            /\ value' = v + 2
            /\ pc' = [pc EXCEPT ![i] = "done"]

\* The task ends without giving its slot back.
FinishKeepsSlot(i, out, v) ==
    /\ task' = [task EXCEPT ![i] = out]
    /\ doneOrder' = Append(doneOrder, i)
    /\ waiters' = waiters
    /\ value' = v
    /\ pc' = [pc EXCEPT ![i] = "done"]

\* The unit's task ends with outcome `out`; leaving `async with semaphore`
\* releases the slot the unit holds (`v` is the counter while it holds it):
\* release() gives the slot to the first waiter, or else returns it.
Finish(i, out, v) ==
    /\ task' = [task EXCEPT ![i] = out]
    /\ doneOrder' = Append(doneOrder, i)
    /\ IF HasWaiter
       THEN /\ waiters' = Tail(waiters)
            /\ value' = v
            /\ pc' = [pc EXCEPT ![i] = "done", ![Head(waiters)] = "woken"]
       ELSE /\ waiters' = waiters
            /\ value' = v + 1
            /\ pc' = [pc EXCEPT ![i] = "done"]

\* The backoff sleep taken after every failed attempt, the last one included.
HandleFailureBacksOffLast(i, c) ==
    /\ opLog' = [opLog EXCEPT ![i] = Append(@, Failure(c))]
    /\ backoffs' = [backoffs EXCEPT ![i] = Append(@, BackoffDelay(attempt[i]))]
    /\ IF LastAttempt(i)
       THEN /\ Finish(i, Returned(ErrorRecord(Url(i), c)), value)
            /\ UNCHANGED <<attempt, paces>>
       ELSE /\ pc' = [pc EXCEPT ![i] = "backoff"]
            /\ UNCHANGED <<attempt, paces, task, doneOrder, value, waiters>>

\* The error record built from the first failure of the unit.
HandleFailureFirstCause(i, c) ==
    /\ opLog' = [opLog EXCEPT ![i] = Append(@, Failure(c))]
    /\ IF LastAttempt(i)
       THEN /\ Finish(i, Returned(ErrorRecord(Url(i), opLog'[i][1].cause)), value)
            /\ UNCHANGED <<attempt, backoffs, paces>>
       ELSE /\ pc' = [pc EXCEPT ![i] = "backoff"]
            /\ backoffs' = [backoffs EXCEPT ![i] = Append(@, BackoffDelay(attempt[i]))]
            /\ UNCHANGED <<attempt, paces, task, doneOrder, value, waiters>>

\* The last failure re-raised instead of being turned into an error record.
HandleFailureRaises(i, c) ==
    /\ opLog' = [opLog EXCEPT ![i] = Append(@, Failure(c))]
    /\ IF LastAttempt(i)
       THEN /\ Finish(i, Raised(c), value)
            /\ UNCHANGED <<attempt, backoffs, paces>>
       ELSE /\ pc' = [pc EXCEPT ![i] = "backoff"]
            /\ backoffs' = [backoffs EXCEPT ![i] = Append(@, BackoffDelay(attempt[i]))]
            /\ UNCHANGED <<attempt, paces, task, doneOrder, value, waiters>>

\* The `except Exception as e` branch of attempt `attempt[i]`, cause `c`.
HandleFailure(i, c) ==
    /\ opLog' = [opLog EXCEPT ![i] = Append(@, Failure(c))]
    /\ IF LastAttempt(i)
       THEN /\ Finish(i, Returned(ErrorRecord(Url(i), c)), value)
            /\ UNCHANGED <<attempt, backoffs, paces>>
       ELSE /\ pc' = [pc EXCEPT ![i] = "backoff"]
            /\ backoffs' = [backoffs EXCEPT ![i] = Append(@, BackoffDelay(attempt[i]))]
            /\ UNCHANGED <<attempt, paces, task, doneOrder, value, waiters>>

\* The reply recorded without leaving the loop while attempts remain.
HandleResponseContinue(i, s) ==
    /\ opLog' = [opLog EXCEPT ![i] = Append(@, Response(s))]
    /\ IF LastAttempt(i)
       THEN /\ Finish(i, Returned(SuccessRecord(Url(i), s)), value)
            /\ UNCHANGED <<attempt, backoffs, paces>>
       ELSE /\ pc' = [pc EXCEPT ![i] = "backoff"]
            /\ UNCHANGED <<attempt, backoffs, paces, task, doneOrder, value, waiters>>

\* The `return {...}` of a reply with status `s`.
HandleResponse(i, s) ==
    /\ opLog' = [opLog EXCEPT ![i] = Append(@, Response(s))]
    /\ Finish(i, Returned(SuccessRecord(Url(i), s)), value)
    /\ UNCHANGED <<attempt, backoffs, paces>>

\* bounded_request once the unit holds a slot (counter at `v`): the call of
\* make_request up to its first suspension.
Enter(i, v) ==
    IF ~MethodIsString(i)
    THEN /\ Finish(i, Raised("AttributeError"), v)
         /\ UNCHANGED <<attempt, opLog, backoffs, paces>>
    ELSE IF retry_count <= 0
    THEN /\ Finish(i, Returned(NoneValue), v)       \* range() is empty
         /\ UNCHANGED <<attempt, opLog, backoffs, paces>>
    ELSE /\ pc' = [pc EXCEPT ![i] = "pacing"]
         /\ attempt' = [attempt EXCEPT ![i] = 0]
         /\ paces' = [paces EXCEPT ![i] = Append(@, delay_range)]
         /\ value' = v
         /\ UNCHANGED <<opLog, backoffs, task, doneOrder, waiters>>

\* ------------------------------------------------------------- run_async
\* The results handed back in the order the tasks finished.
GatherOrderByCompletion == [k \in 1..Len(doneOrder) |-> doneOrder[k]]

\* gather hands the task results back in the order of the tasks.
GatherOrder == [i \in Units |-> i]

\* gather completes when every task has finished.
AllDone == \A i \in Units : pc[i] = "done"

\* The exception object left in the list as gather handed it back.
ProcessKeepsException(t) == IF t.kind = "raise" THEN t ELSE t.value

\* Lines 150-156: an exception object becomes {'error': str(result)}.
Process(t) == IF t.kind = "raise" THEN [error |-> t.exc] ELSE t.value

ProcessedResults == [k \in Units |-> Process(task[GatherOrder[k]])]

\* Lines 134-147: build the semaphore and the tasks.
StartRun ==
    /\ phase = "constructed"
    /\ IF concurrency < 0
       THEN /\ phase' = "raised"          \* Semaphore(): ValueError
            /\ UNCHANGED <<value, waiters, pc, attempt, opLog, backoffs, paces, task, doneOrder, results>>
       ELSE /\ value' = concurrency
            /\ waiters' = <<>>
            /\ pc' = [i \in Units |-> "created"]
            /\ attempt' = [i \in Units |-> 0]
            /\ opLog' = [i \in Units |-> <<>>]
            /\ backoffs' = [i \in Units |-> <<>>]
            /\ paces' = [i \in Units |-> <<>>]
            /\ task' = [i \in Units |-> Pending]
            /\ doneOrder' = <<>>
            /\ IF endpoints = <<>>
               THEN phase' = "returned" /\ results' = <<>>
               ELSE phase' = "running" /\ UNCHANGED results
    /\ UNCHANGED cfgVars
    /\ UNCHANGED notApi

\* First step of a task: `async with semaphore`; tasks start in creation order.
Start(i) ==
    /\ phase = "running"
    /\ pc[i] = "created"
    /\ \A j \in 1..(i-1) : pc[j] # "created"
    /\ IF Locked
       THEN /\ waiters' = Append(waiters, i)
            /\ pc' = [pc EXCEPT ![i] = "waiting"]
            /\ UNCHANGED <<value, attempt, opLog, backoffs, paces, task, doneOrder>>
       ELSE Enter(i, value - 1)
    /\ UNCHANGED <<cfgVars, phase, results>>
    /\ UNCHANGED notApi

\* A woken waiter resumes: acquire() returns and make_request is called.
Resume(i) ==
    /\ phase = "running"
    /\ pc[i] = "woken"
    /\ Enter(i, value)
    /\ UNCHANGED <<cfgVars, phase, results>>
    /\ UNCHANGED notApi

\* The normalised method written back into the descriptor before the request.
PacingDoneNormalisesMethod(i) ==
    /\ phase = "running"
    /\ pc[i] = "pacing"
    /\ endpoints' = [endpoints EXCEPT ![i] =
                        [k \in DOMAIN @ \cup {"method"} |->
                            IF k = "method" THEN Method(i) ELSE @[k]]]
    /\ IF Method(i) \in SupportedMethods
       THEN /\ pc' = [pc EXCEPT ![i] = "request"]
            /\ UNCHANGED <<attempt, opLog, backoffs, paces, task, doneOrder, value, waiters>>
       ELSE HandleFailure(i, "ValueError")
    /\ UNCHANGED <<config, concurrency, retry_count, delay_range, phase, results>>
    /\ UNCHANGED notApi

\* The pacing sleep ends and the request is issued (lines 84-121).
PacingDone(i) ==
    /\ phase = "running"
    /\ pc[i] = "pacing"
    /\ IF Method(i) \in SupportedMethods
       THEN /\ pc' = [pc EXCEPT ![i] = "request"]
            /\ UNCHANGED <<attempt, opLog, backoffs, paces, task, doneOrder, value, waiters>>
       ELSE HandleFailure(i, "ValueError")
    /\ UNCHANGED <<cfgVars, phase, results>>
    /\ UNCHANGED notApi

\* The HTTP exchange ends with a reply.
RequestReply(i) ==
    /\ phase = "running"
    /\ pc[i] = "request"
    /\ \E s \in Statuses : HandleResponse(i, s)
    /\ UNCHANGED <<cfgVars, phase, results>>
    /\ UNCHANGED notApi

\* The HTTP exchange raises (network error, timeout).
RequestFault(i) ==
    /\ phase = "running"
    /\ pc[i] = "request"
    /\ \E c \in FaultsOf(Url(i)) : HandleFailure(i, c)
    /\ UNCHANGED <<cfgVars, phase, results>>
    /\ UNCHANGED notApi

\* The retry issued straight after the backoff, with no pacing sleep.
BackoffDoneNoPacing(i) ==
    /\ phase = "running"
    /\ pc[i] = "backoff"
    /\ attempt' = [attempt EXCEPT ![i] = @ + 1]
    /\ pc' = [pc EXCEPT ![i] = "request"]
    /\ UNCHANGED <<cfgVars, phase, results, opLog, backoffs, paces, task, doneOrder, value, waiters>>
    /\ UNCHANGED notApi

\* The backoff sleep ends: next iteration of the loop, which starts with the
\* pacing sleep of lines 81-82.
BackoffDone(i) ==
    /\ phase = "running"
    /\ pc[i] = "backoff"
    /\ attempt' = [attempt EXCEPT ![i] = @ + 1]
    /\ pc' = [pc EXCEPT ![i] = "pacing"]
    /\ paces' = [paces EXCEPT ![i] = Append(@, delay_range)]
    /\ UNCHANGED <<cfgVars, phase, results, opLog, backoffs, task, doneOrder, value, waiters>>
    /\ UNCHANGED notApi

\* Waiting for the first task only and returning what has finished.
GatherFirstCompleted ==
    /\ phase = "running"
    /\ \E i \in Units : pc[i] = "done"
    /\ results' = [k \in 1..Len(doneOrder) |-> Process(task[doneOrder[k]])]
    /\ phase' = "returned"
    /\ UNCHANGED <<cfgVars, value, waiters, pc, attempt, opLog, backoffs, paces, task, doneOrder>>
    /\ UNCHANGED notApi

\* Lines 147-158: gather completes, the results are processed and returned.
Gather ==
    /\ phase = "running"
    /\ AllDone
    /\ results' = ProcessedResults
    /\ phase' = "returned"
    /\ UNCHANGED <<cfgVars, value, waiters, pc, attempt, opLog, backoffs, paces, task, doneOrder>>
    /\ UNCHANGED notApi

\* ------------------------------------------------------------ shutdown
\* SIGINT/SIGTERM: graceful_shutdown calls sys.exit(0); SystemExit unwinds
\* asyncio.run, which cancels every unfinished task, and the process exits.
Shutdown ==
    /\ phase \in {"constructed", "running", "returned"}
    /\ phase' = "exited"
    /\ pc' = [i \in DOMAIN pc |-> IF pc[i] = "done" THEN "done" ELSE "cancelled"]
    /\ waiters' = <<>>
    /\ value' = IF phase = "running" THEN concurrency ELSE value
    /\ UNCHANGED <<cfgVars, attempt, opLog, backoffs, paces, task, doneOrder, results>>
    /\ UNCHANGED notApi

\* ============================================================ WebScraper
WsDefaultRetry == 3
WsDefaultDelayMin == 1
WsDefaultDelayMax == 3
DefaultStartPage == 1
DefaultEndPage == 10

\* A dict without keys; in a condition it is false, as None is.
EmptyDict == << >>
Truthy(d) == DOMAIN d # {}

\* A URL is the sequence of its pieces.
BaseUrls == { <<"http://site/items">>, <<"http://site/items", "?", "q=1">> }

\* `'?' in base_url`
Contains(s, piece) == \E k \in 1..Len(s) : s[k] = piece

\* The pagination sections: none, one with the defaults at work, one with
\* its own parameter name, and the ranges of 0..MaxPages pages.
Paginations ==
    { EmptyDict,
      [end |-> 1],
      [start |-> DefaultEndPage - 1],
      [param |-> "p", start |-> 2, end |-> 3] }
    \cup { [start |-> 1, end |-> e] : e \in 0..MaxPages }

ScraperConfigs ==
    { [mode |-> m, base_url |-> b, pagination |-> p, retry |-> r,
       delay_range |-> <<1, 3>>] :
        m \in {"static", "js", "ftp"}, b \in BaseUrls, p \in Paginations,
        r \in 0..MaxRetry }
    \cup { [base_url |-> b] : b \in BaseUrls }
    \cup { [base_url |-> <<"http://site/items">>, retry |-> LongRetry] }

\* list(range(a, b))
Range(a, b) == [k \in 1..(IF b > a THEN b - a ELSE 0) |-> a + k - 1]

\* A page URL that always opens a query string, whatever base_url holds.
PageUrlAlwaysQuestion(base_url, page_param, page) ==
    base_url \o <<"?", page_param, "=", page>>

\* Lines 167-170: the URL of one page.
PageUrl(base_url, page_param, page) ==
    IF Contains(base_url, "?")
    THEN base_url \o <<"&", page_param, "=", page>>
    ELSE base_url \o <<"?", page_param, "=", page>>

\* WebScraper.handle_pagination
handle_pagination(base_url, pagination_config) ==
    IF ~Truthy(pagination_config)
    THEN <<base_url>>
    ELSE LET page_param == Get(pagination_config, "param", "page")
             start_page == Get(pagination_config, "start", DefaultStartPage)
             end_page == Get(pagination_config, "end", DefaultEndPage)
             pages == Range(start_page, end_page + 1)
         IN [k \in DOMAIN pages |-> PageUrl(base_url, page_param, pages[k])]

\* What scrape_static returns, and what fetch returns for `url`.
StaticData == [items |-> "text"]
FetchData(url) == [url |-> url, items |-> "text"]

\* The state of the retry loop working on one url.
NewFetch(p) == [pc |-> p, attempt |-> 0, log |-> <<>>, backoffs |-> <<>>, out |-> Pending]

WsInit ==
    /\ ws_config \in (IF component = "web_scraper" THEN ScraperConfigs
                      ELSE {[base_url |-> <<>>]})
    /\ ws_dry_run \in (IF component = "web_scraper" THEN BOOLEAN ELSE {FALSE})
    /\ ws_phase = IF component = "web_scraper" THEN "config" ELSE "idle"
    /\ scraper = EmptyDict
    /\ urls = <<>>
    /\ fetch = <<>>
    /\ ws_paces = <<>>
    /\ ws_results = <<>>

\* What a step of the scraper leaves alone.
notWs == <<component, apiVars, seqVars, cliVars, socVars>>

\* WebScraper.__init__
WsConstruct ==
    /\ ws_phase = "config"
    /\ scraper' = [mode |-> Get(ws_config, "mode", "static"),
                   base_url |-> Get(ws_config, "base_url", <<>>),
                   pagination |-> Get(ws_config, "pagination", EmptyDict),
                   retry_count |-> Get(ws_config, "retry", WsDefaultRetry),
                   delay_range |-> Get(ws_config, "delay_range",
                                       <<WsDefaultDelayMin, WsDefaultDelayMax>>)]
    /\ ws_phase' = "constructed"
    /\ UNCHANGED <<ws_config, ws_dry_run, urls, fetch, ws_paces, ws_results>>
    /\ UNCHANGED notWs

\* WebScraper.run, lines 239-249: a dry run returns at once; otherwise the one
\* pacing sleep of the run.
WsRun ==
    /\ ws_phase = "constructed"
    /\ IF ws_dry_run
       THEN /\ ws_phase' = "returned"
            /\ ws_results' = <<>>
            /\ UNCHANGED ws_paces
       ELSE /\ ws_phase' = "pacing"
            /\ ws_paces' = Append(ws_paces, scraper.delay_range)
            /\ UNCHANGED ws_results
    /\ UNCHANGED <<ws_config, ws_dry_run, scraper, urls, fetch>>
    /\ UNCHANGED notWs

\* Lines 251-269: the dispatch on the mode once the sleep is over.  One url
\* goes to scrape_static, which with no attempt allowed falls off its loop and
\* returns None; several (or none) go to scrape_async, one task per url.
WsDispatch ==
    /\ ws_phase = "pacing"
    /\ LET us == handle_pagination(scraper.base_url, scraper.pagination) IN
       IF scraper.mode = "static"
       THEN /\ urls' = us
            /\ IF Len(us) = 1
               THEN IF scraper.retry_count <= 0
                    THEN /\ ws_phase' = "returned"
                         /\ ws_results' = <<NoneValue>>
                         /\ fetch' = <<>>
                    ELSE /\ ws_phase' = "static"
                         /\ fetch' = <<NewFetch("request")>>
                         /\ UNCHANGED ws_results
               ELSE IF us = <<>>
                    THEN /\ ws_phase' = "returned"
                         /\ ws_results' = <<>>
                         /\ fetch' = <<>>
                    ELSE /\ ws_phase' = "async"
                         /\ fetch' = [i \in DOMAIN us |-> NewFetch("created")]
                         /\ UNCHANGED ws_results
       ELSE IF scraper.mode = "js"
       THEN /\ urls' = us
            /\ ws_phase' = IF us = <<>> THEN "returned" ELSE "js"
            /\ UNCHANGED <<fetch, ws_results>>
       ELSE /\ ws_phase' = "raised"                  \* ValueError
            /\ UNCHANGED <<urls, fetch, ws_results>>
    /\ UNCHANGED <<ws_config, ws_dry_run, scraper, ws_paces>>
    /\ UNCHANGED notWs

\* `if attempt < self.retry_count - 1` is false in the loop working on url i.
WsLastAttempt(i) == ~(fetch[i].attempt < scraper.retry_count - 1)

\* The delay of `time.sleep(2 ** attempt)` and of `asyncio.sleep(2 ** attempt)`.
WsBackoffDelay(a) == 2 ^ a

\* The loop on url i records the end of an attempt and goes on to `p`.
Logged(i, entry, p) == [fetch[i] EXCEPT !.log = Append(@, entry), !.pc = p]

\* The failed attempt is not the last: the loop sleeps before the next one.
BackingOff(i, c) ==
    [Logged(i, Failure(c), "backoff") EXCEPT
        !.backoffs = Append(@, WsBackoffDelay(fetch[i].attempt))]

\* scrape_static, lines 90-96: an attempt failed with cause `c`; the last
\* failure is raised again and leaves run.
StaticFailure(c) ==
    IF WsLastAttempt(1)
    THEN /\ fetch' = [fetch EXCEPT ![1] = [Logged(1, Failure(c), "done") EXCEPT !.out = Raised(c)]]
         /\ ws_phase' = "raised"
         /\ UNCHANGED ws_results
    ELSE /\ fetch' = [fetch EXCEPT ![1] = BackingOff(1, c)]
         /\ UNCHANGED <<ws_phase, ws_results>>

\* scrape_static, lines 77-88: the server replied; raise_for_status turns a
\* 4xx/5xx reply into a failure.
StaticReply ==
    /\ ws_phase = "static"
    /\ fetch[1].pc = "request"
    /\ \E s \in Statuses :
          IF s < 400
          THEN /\ fetch' = [fetch EXCEPT ![1] =
                               [Logged(1, Response(s), "done") EXCEPT !.out = Returned(StaticData)]]
               /\ ws_phase' = "returned"
               /\ ws_results' = <<StaticData>>
          ELSE StaticFailure("HTTPError")
    /\ UNCHANGED <<ws_config, ws_dry_run, scraper, urls, ws_paces>>
    /\ UNCHANGED notWs

\* scrape_static: the request raised.
StaticFault ==
    /\ ws_phase = "static"
    /\ fetch[1].pc = "request"
    /\ \E c \in Causes : StaticFailure(c)
    /\ UNCHANGED <<ws_config, ws_dry_run, scraper, urls, ws_paces>>
    /\ UNCHANGED notWs

\* scrape_static: the backoff sleep ends and the next attempt is made.
StaticBackoffDone ==
    /\ ws_phase = "static"
    /\ fetch[1].pc = "backoff"
    /\ fetch' = [fetch EXCEPT ![1] = [@ EXCEPT !.pc = "request", !.attempt = @ + 1]]
    /\ UNCHANGED <<ws_config, ws_dry_run, ws_phase, scraper, urls, ws_paces, ws_results>>
    /\ UNCHANGED notWs

\* scrape_async: the task of url i runs up to its first request; with no
\* attempt allowed it falls off the loop and returns None.
FetchStart(i) ==
    /\ ws_phase = "async"
    /\ fetch[i].pc = "created"
    /\ \A j \in 1..(i-1) : fetch[j].pc # "created"
    /\ fetch' = [fetch EXCEPT ![i] =
                    IF scraper.retry_count <= 0
                    THEN [@ EXCEPT !.pc = "done", !.out = Returned(NoneValue)]
                    ELSE [@ EXCEPT !.pc = "request"]]
    /\ UNCHANGED <<ws_config, ws_dry_run, ws_phase, scraper, urls, ws_paces, ws_results>>
    /\ UNCHANGED notWs

\* fetch, lines 106-116: the server replied; the status is not looked at.
FetchReply(i) ==
    /\ ws_phase = "async"
    /\ fetch[i].pc = "request"
    /\ \E s \in Statuses :
          fetch' = [fetch EXCEPT ![i] =
                       [Logged(i, Response(s), "done") EXCEPT !.out = Returned(FetchData(urls[i]))]]
    /\ UNCHANGED <<ws_config, ws_dry_run, ws_phase, scraper, urls, ws_paces, ws_results>>
    /\ UNCHANGED notWs

\* fetch, lines 118-123: the request raised; the last failure becomes an
\* error record.
FetchFault(i) ==
    /\ ws_phase = "async"
    /\ fetch[i].pc = "request"
    /\ \E c \in Causes :
          fetch' = [fetch EXCEPT ![i] =
                       IF WsLastAttempt(i)
                       THEN [Logged(i, Failure(c), "done") EXCEPT
                                !.out = Returned(ErrorRecord(urls[i], c))]
                       ELSE BackingOff(i, c)]
    /\ UNCHANGED <<ws_config, ws_dry_run, ws_phase, scraper, urls, ws_paces, ws_results>>
    /\ UNCHANGED notWs

\* fetch: the backoff sleep ends and the next attempt is made.
FetchBackoffDone(i) ==
    /\ ws_phase = "async"
    /\ fetch[i].pc = "backoff"
    /\ fetch' = [fetch EXCEPT ![i] = [@ EXCEPT !.pc = "request", !.attempt = @ + 1]]
    /\ UNCHANGED <<ws_config, ws_dry_run, ws_phase, scraper, urls, ws_paces, ws_results>>
    /\ UNCHANGED notWs

\* scrape_async, lines 127-128: gather returns the tasks' results in order.
ScrapeAsyncGather ==
    /\ ws_phase = "async"
    /\ \A i \in DOMAIN fetch : fetch[i].pc = "done"
    /\ ws_results' = [i \in DOMAIN fetch |-> fetch[i].out.value]
    /\ ws_phase' = "returned"
    /\ UNCHANGED <<ws_config, ws_dry_run, scraper, urls, fetch, ws_paces>>
    /\ UNCHANGED notWs

\* run, lines 262-266: scrape_js_heavy on the next url, then a pacing sleep;
\* a fault of the driver is not caught and leaves run.
ScrapeJsHeavy ==
    /\ ws_phase = "js"
    /\ \/ /\ ws_results' = Append(ws_results, StaticData)
          /\ ws_paces' = Append(ws_paces, scraper.delay_range)
          /\ ws_phase' = IF Len(ws_results) + 1 = Len(urls) THEN "returned" ELSE "js"
       \/ /\ ws_phase' = "raised"
          /\ UNCHANGED <<ws_results, ws_paces>>
    /\ UNCHANGED <<ws_config, ws_dry_run, scraper, urls, fetch>>
    /\ UNCHANGED notWs

\* ================================================ RPATasks, BrowserAutomation
\* The RPA tasks all name one path; `fs` says what is there.
RpaTaskTypes == {"file_delete", "directory_create", "shred"}   \* "shred" is no task type

Conditions ==
    { EmptyDict,                                  \* "condition": {}
      [type |-> "file_exists", path |-> "p"],
      [type |-> "moon_phase"] }                   \* no condition type

RpaTaskSet ==
    UNION { { [type |-> t],
              [type |-> t, stop_on_error |-> TRUE] }
            \cup { [type |-> t, condition |-> c] : c \in Conditions }
            \cup { [type |-> t, condition |-> c, stop_on_error |-> TRUE] : c \in Conditions }
          : t \in RpaTaskTypes }

BrowserTaskTypes == {"click", "extract", "hover"}               \* "hover" is no task type

BrowserTaskSet ==
    UNION { { [type |-> t], [type |-> t, stop_on_error |-> TRUE] } : t \in BrowserTaskTypes }

TaskLists(S) == UNION { [1..n -> S] : n \in 0..MaxTasks }

SeqInit ==
    /\ tasks \in (CASE component = "rpa" -> TaskLists(RpaTaskSet)
                    [] component = "browser" -> TaskLists(BrowserTaskSet)
                    [] OTHER -> {<<>>})
    /\ dry_run \in (IF component \in {"rpa", "browser"} THEN BOOLEAN ELSE {FALSE})
    /\ seq_phase = IF component \in {"rpa", "browser"} THEN "constructed" ELSE "idle"
    /\ cursor = 0
    /\ performed = <<>>
    /\ seq_results = <<>>
    /\ fs \in (IF component = "rpa" THEN {"absent", "file", "dir"} ELSE {"absent"})
    /\ driver = "None"
    /\ quits = 0

\* What a step of a sequential runner leaves alone.
notSeq == <<component, apiVars, wsVars, cliVars, socVars>>

\* RPATasks.check_condition, with the path being `f`.
check_condition(condition, f) ==
    LET condition_type == Get(condition, "type", JsonNull) IN
    IF condition_type = "file_exists" THEN f # "absent" ELSE FALSE

\* RPATasks.file_delete: os.remove(path)
file_delete(f) ==
    IF f = "file"
    THEN [result |-> [task |-> "file_delete", status |-> "success"], fs |-> "absent"]
    ELSE [result |-> [task |-> "file_delete", status |-> "error"], fs |-> f]

\* RPATasks.directory_create: os.makedirs(path, exist_ok=True)
directory_create(f) ==
    IF f = "file"
    THEN [result |-> [task |-> "directory_create", status |-> "error"], fs |-> f]
    ELSE [result |-> [task |-> "directory_create", status |-> "success"], fs |-> "dir"]

\* The condition checked whenever the task has the key.
SkippedAlwaysChecked(t, f) ==
    "condition" \in DOMAIN t /\ ~check_condition(t.condition, f)

\* Line 361: `if condition and not self.check_condition(condition)`; a missing
\* condition reads as None, which is false as the empty dict is.
Skipped(t, f) ==
    LET condition == Get(t, "condition", EmptyDict) IN
    Truthy(condition) /\ ~check_condition(condition, f)

\* RPATasks.execute_task: the result, what the path is afterwards, and
\* whether an operation was performed.
execute_task(t, f) ==
    LET task_type == Get(t, "type", JsonNull) IN
    IF Skipped(t, f)
    THEN [result |-> [task |-> task_type, status |-> "skipped"], fs |-> f, performed |-> FALSE]
    ELSE IF task_type = "file_delete"
    THEN [performed |-> TRUE] @@ file_delete(f)
    ELSE IF task_type = "directory_create"
    THEN [performed |-> TRUE] @@ directory_create(f)
    ELSE [result |-> [task |-> task_type, status |-> "error"], fs |-> f, performed |-> FALSE]

\* The loop ending at the first failed task whether or not its flag is set.
StopsOnAnyError(t, result) == Get(result, "status", JsonNull) = "error"

\* The loop going on after a failed task whatever its flag says.
StopsNever(t, result) == FALSE

\* Lines 423 and 191: `result.get('status') == 'error' and
\* task.get('stop_on_error', False)`
Stops(t, result) ==
    Get(result, "status", JsonNull) = "error" /\ Get(t, "stop_on_error", FALSE)

\* RPATasks.run up to its loop: a dry run returns the empty list.
RpaRun ==
    /\ component = "rpa"
    /\ seq_phase = "constructed"
    /\ seq_phase' = IF dry_run \/ tasks = <<>> THEN "returned" ELSE "running"
    /\ UNCHANGED <<tasks, dry_run, cursor, performed, seq_results, fs, driver, quits>>
    /\ UNCHANGED notSeq

\* One turn of the loop of RPATasks.run: the next task is executed and its
\* result appended; the loop ends after the last task or on a stop.
RpaStep ==
    /\ component = "rpa"
    /\ seq_phase = "running"
    /\ LET t == tasks[cursor + 1]
           done == execute_task(t, fs)
       IN /\ cursor' = cursor + 1
          /\ seq_results' = Append(seq_results, done.result)
          /\ fs' = done.fs
          /\ performed' = IF done.performed THEN Append(performed, cursor + 1) ELSE performed
          /\ seq_phase' = IF Stops(t, done.result) \/ cursor + 1 = Len(tasks)
                          THEN "returned" ELSE "running"
    /\ UNCHANGED <<tasks, dry_run, driver, quits>>
    /\ UNCHANGED notSeq

\* The driver quit by the exception handler and again by the finally block.
BrowserFatalQuitsTwice ==
    /\ driver' = "quit"
    /\ quits' = quits + 2
    /\ seq_phase' \in {"returned", "raised"}

\* BrowserAutomation.run, lines 195-202, entered with a live driver because an
\* exception reached `except Exception`: take_screenshot may raise in turn,
\* which leaves run once the driver is quit.
BrowserFatal ==
    /\ driver' = "quit"
    /\ quits' = quits + 1
    /\ seq_phase' \in {"returned", "raised"}

\* BrowserAutomation.run, lines 198-202: the loop is over.
BrowserFinally ==
    /\ driver' = "quit"
    /\ quits' = quits + 1
    /\ seq_phase' = "returned"

\* BrowserAutomation.run up to its loop.  A dry run returns the empty list.
\* init_driver may fail before the driver exists (nothing to quit) or after.
BrowserRun ==
    /\ component = "browser"
    /\ seq_phase = "constructed"
    /\ IF dry_run
       THEN /\ seq_phase' = "returned"
            /\ UNCHANGED <<driver, quits>>
       ELSE \/ /\ seq_phase' = "returned"            \* webdriver.Chrome() raised
               /\ UNCHANGED <<driver, quits>>
            \/ BrowserFatal                          \* set_page_load_timeout raised
            \/ IF tasks = <<>>
               THEN BrowserFinally
               ELSE /\ driver' = "live"
                    /\ seq_phase' = "running"
                    /\ UNCHANGED quits
    /\ UNCHANGED <<tasks, dry_run, cursor, performed, seq_results, fs>>
    /\ UNCHANGED notSeq

\* BrowserAutomation.execute_task ended with `result`: lines 188-193.
BrowserRecord(result) ==
    /\ seq_results' = Append(seq_results, result)
    /\ IF Stops(tasks[cursor + 1], result) \/ cursor + 1 = Len(tasks)
       THEN BrowserFinally
       ELSE UNCHANGED <<seq_phase, driver, quits>>

\* One turn of the loop of BrowserAutomation.run.  The task succeeds ('extract'
\* returns a record without a status), or fails and is recorded as an error,
\* or fails and the screenshot of the handler fails too, which leaves
\* execute_task.  A type that is no task type always fails.
BrowserStep ==
    /\ component = "browser"
    /\ seq_phase = "running"
    /\ LET task_type == Get(tasks[cursor + 1], "type", JsonNull) IN
       /\ cursor' = cursor + 1
       /\ performed' = IF task_type \in {"click", "extract"}
                       THEN Append(performed, cursor + 1) ELSE performed
       /\ \/ /\ task_type = "click"
             /\ BrowserRecord([type |-> task_type, status |-> "success"])
          \/ /\ task_type = "extract"
             /\ BrowserRecord([type |-> task_type, value |-> "text"])
          \/ BrowserRecord([type |-> task_type, status |-> "error"])
          \/ /\ BrowserFatal
             /\ UNCHANGED seq_results
    /\ UNCHANGED <<tasks, dry_run, fs>>
    /\ UNCHANGED notSeq

\* ============================================================ command line
Targets == {"web_scraper", "api", "browser", "rpa", "social_bots"}
Commands == {"run", "test-target", "export"}

ArgSets ==
    [command : Commands, target : Targets, dry_run : BOOLEAN, daemon : BOOLEAN,
     once : BOOLEAN]

\* config['storage']['type']: not given, or one of the three the code knows.
StorageTypes == {JsonNull, "csv", "json", "sqlite"}

\* What a run that is not dry hands back, each record reduced to whether it is
\* an error record; what the runner does inside is the runners' own model.
RealResults == { <<>>, <<"record">>, <<"error">> }

CliInit ==
    /\ args \in (IF component = "cli" THEN ArgSets
                 ELSE {[command |-> "export", target |-> "api", dry_run |-> FALSE,
                        daemon |-> FALSE, once |-> FALSE]})
    /\ storage_type \in (IF component = "cli" THEN StorageTypes ELSE {JsonNull})
    /\ cli_pc = IF component = "cli" THEN "main" ELSE "idle"
    /\ runs = 0
    /\ effects = {}
    /\ cli_results = <<>>
    /\ sessions = <<>>

\* What a step of the command line leaves alone.
notCli == <<component, apiVars, wsVars, seqVars, socVars>>

\* The dry_run that run_target is called with: test_target passes True.
DryRun == args.command = "test-target" \/ args.dry_run

\* What run(dry_run) can hand back.
RunResults == IF DryRun THEN { <<>> } ELSE RealResults

\* save_to_csv and save_to_sqlite return before writing unless some item is
\* not an error record.
HasData(rs) == \E k \in DOMAIN rs : rs[k] # "error"

\* What a run that handed back `rs` did outside the program.
Acted(rs) == IF rs # <<>> THEN {"actions"} ELSE {}

\* main, lines 229-269: the command decides whether run_target is called.
Main ==
    /\ component = "cli"
    /\ cli_pc = "main"
    /\ cli_pc' = IF args.command = "export" THEN "returned" ELSE "call"
    /\ UNCHANGED <<args, storage_type, runs, effects, cli_results, sessions>>
    /\ UNCHANGED notCli

\* run_target is about to be called for `target`.
Calls(target) ==
    /\ component = "cli"
    /\ cli_pc = "call"
    /\ args.target = target
    /\ runs < MaxRuns

\* The loop left after the first call when --once is given.
AfterRunTargetOnceBreaks(rs) ==
    /\ cli_results' = rs
    /\ runs' = runs + 1
    /\ cli_pc' = IF args.command = "run" /\ args.daemon /\ ~args.once
                 THEN "sleeping" ELSE "returned"
    /\ UNCHANGED <<args, storage_type>>

\* main, lines 235-250 and 257-258, once run_target has returned `rs`: in
\* daemon mode the loop goes on, and --once only leaves out the sleep.
AfterRunTarget(rs) ==
    /\ cli_results' = rs
    /\ runs' = runs + 1
    /\ cli_pc' = IF args.command = "run" /\ args.daemon
                 THEN IF ~args.once THEN "sleeping" ELSE "call"
                 ELSE "returned"
    /\ UNCHANGED <<args, storage_type>>

\* run_web_scraper: the constructor makes a requests.Session; the results
\* are saved (csv unless told otherwise; save_to_jsonl always writes); an
\* exception of run gives the empty list and nothing is saved.
RunWebScraper ==
    /\ Calls("web_scraper")
    /\ \E rs \in RunResults, raised \in (IF DryRun THEN {FALSE} ELSE BOOLEAN) :
          LET storage == IF storage_type = JsonNull THEN "csv" ELSE storage_type
              saved == ~raised /\ (storage = "json" \/ HasData(rs))
          IN /\ effects' = effects \cup {"Session"} \cup Acted(rs)
                               \cup (IF saved THEN {"file"} ELSE {})
             /\ AfterRunTarget(IF raised THEN <<>> ELSE rs)
    /\ UNCHANGED sessions
    /\ UNCHANGED notCli

\* The sessions of one APIAutomation object: those made so far (`all`) and
\* self.session, the place in `all` of the one the object holds (0 for None).
NewApi(made) == [all |-> made, session |-> 0]

\* APIAutomation.__aenter__: a new ClientSession takes the place of whatever
\* self.session held.
aenter(api) == [all |-> Append(api.all, "open"), session |-> Len(api.all) + 1]

\* APIAutomation.__aexit__: the session self.session holds now is closed.
aexit(api) ==
    IF api.session # 0 THEN [api EXCEPT !.all[api.session] = "closed"] ELSE api

\* APIAutomation.run, lines 228-234: a dry run returns at once; otherwise
\* run_async runs inside `async with self`.
ApiRunSessions(api, dry) == IF dry THEN api ELSE aexit(aenter(api))

\* run_api_automation: `async with APIAutomation(...)` opens a ClientSession
\* before run is called; the results are saved (json unless told otherwise;
\* save_to_json always writes); the context is left when the call ends.
RunApiAutomation ==
    /\ Calls("api")
    /\ \E rs \in RunResults, raised \in (IF DryRun THEN {FALSE} ELSE BOOLEAN) :
          LET storage == IF storage_type = JsonNull THEN "json" ELSE storage_type
              saved == ~raised /\ (storage = "json" \/ HasData(rs))
          IN /\ effects' = effects \cup {"ClientSession"} \cup Acted(rs)
                               \cup (IF saved THEN {"file"} ELSE {})
             /\ AfterRunTarget(IF raised THEN <<>> ELSE rs)
    /\ sessions' = aexit(ApiRunSessions(aenter(NewApi(sessions)), DryRun)).all
    /\ UNCHANGED notCli

\* run_browser_automation: the constructor makes the screenshot directory if
\* it is not there; a run that is not dry starts a driver.
RunBrowserAutomation ==
    /\ Calls("browser")
    /\ \E rs \in RunResults, made \in BOOLEAN :
          /\ effects' = effects \cup Acted(rs)
                            \cup (IF made THEN {"screenshot_dir"} ELSE {})
                            \cup (IF DryRun THEN {} ELSE {"driver"})
          /\ AfterRunTarget(rs)
    /\ UNCHANGED sessions
    /\ UNCHANGED notCli

\* run_rpa_tasks
RunRpaTasks ==
    /\ Calls("rpa")
    /\ \E rs \in RunResults :
          /\ effects' = effects \cup Acted(rs)
          /\ AfterRunTarget(rs)
    /\ UNCHANGED sessions
    /\ UNCHANGED notCli

\* run_social_bots
RunSocialBots ==
    /\ Calls("social_bots")
    /\ \E rs \in RunResults :
          /\ effects' = effects \cup Acted(rs)
          /\ AfterRunTarget(rs)
    /\ UNCHANGED sessions
    /\ UNCHANGED notCli

\* main, line 243: the minute between two runs of the daemon is over.
DaemonWake ==
    /\ component = "cli"
    /\ cli_pc = "sleeping"
    /\ cli_pc' = "call"
    /\ UNCHANGED <<args, storage_type, runs, effects, cli_results, sessions>>
    /\ UNCHANGED notCli

\* SIGINT/SIGTERM while main runs: graceful_shutdown exits the process.
CliShutdown ==
    /\ component = "cli"
    /\ cli_pc \in {"call", "sleeping"}
    /\ cli_pc' = "exited"
    /\ UNCHANGED <<args, storage_type, runs, effects, cli_results, sessions>>
    /\ UNCHANGED notCli

\* ============================================================= social bots
\* The Twitter tasks of a configuration: a tweet to post, a type that is none.
TwitterTaskSet == { [type |-> "post_tweet", message |-> "hi"], [type |-> "like"] }

\* config['social_bots']: nothing about Twitter, an empty Twitter section,
\* credentials alone, or a list of tasks.
SocialConfigs ==
    { EmptyDict, [twitter |-> EmptyDict], [twitter |-> [consumer_key |-> "k"]] }
        \cup { [twitter |-> [tasks |-> ts]] : ts \in TaskLists(TwitterTaskSet) }

SocInit ==
    /\ social_configs \in (IF component = "social_bots" THEN SocialConfigs ELSE {EmptyDict})
    /\ soc_phase = IF component = "social_bots" THEN "config" ELSE "idle"
    /\ soc_attrs = EmptyDict
    /\ soc_cursor = 0
    /\ soc_results = <<>>

\* What a step of the social bots leaves alone.
notSoc == <<component, apiVars, wsVars, seqVars, cliVars>>

\* self.social_configs.get('twitter', {}) and its tasks.
twitter_config == Get(social_configs, "twitter", EmptyDict)
twitter_tasks == Get(twitter_config, "tasks", <<>>)

\* SocialBots.__init__, lines 70-72: the attributes set to None.
InitialAttrs == [telegram_bot |-> "None", discord_bot |-> "None", twitter_api |-> "None"]

\* SocialBots.__init__ with init_bots: with a Twitter section the client is
\* built and stored in twitter_client, unless tweepy.Client raises.
SocConstruct ==
    /\ component = "social_bots"
    /\ soc_phase = "config"
    /\ \/ /\ Truthy(twitter_config)
          /\ soc_attrs' = [k \in DOMAIN InitialAttrs \cup {"twitter_client"} |->
                              IF k = "twitter_client" THEN "Client" ELSE InitialAttrs[k]]
       \/ soc_attrs' = InitialAttrs
    /\ soc_phase' = "constructed"
    /\ UNCHANGED <<social_configs, soc_cursor, soc_results>>
    /\ UNCHANGED notSoc

\* The error record of a client that is not there.
NotInitialized ==
    [platform |-> "twitter", status |-> "error", error |-> "Twitter API not initialized"]

\* SocialBots.post_tweet on an object with attributes `attrs`; `sent` says
\* whether create_tweet went through.  Reading an attribute the object does
\* not have raises AttributeError.
post_tweet(attrs, sent) ==
    IF "twitter_client" \notin DOMAIN attrs THEN Raised("AttributeError")
    ELSE IF attrs.twitter_client = "None" THEN Returned(NotInitialized)
    ELSE IF sent THEN Returned([platform |-> "twitter", status |-> "success"])
    ELSE Returned([platform |-> "twitter", status |-> "error", error |-> "TweepyException"])

\* SocialBots.run for the Twitter tasks: a dry run returns the empty list, and
\* so does a run without tasks.
SocRun ==
    /\ component = "social_bots"
    /\ soc_phase = "constructed"
    /\ \E dry \in BOOLEAN :
          soc_phase' = IF dry \/ twitter_tasks = <<>> THEN "returned" ELSE "running"
    /\ UNCHANGED <<social_configs, soc_attrs, soc_cursor, soc_results>>
    /\ UNCHANGED notSoc

\* One turn of the loop of run_twitter_tasks.
SocTwitterStep ==
    /\ component = "social_bots"
    /\ soc_phase = "running"
    /\ LET t == twitter_tasks[soc_cursor + 1]
           last == soc_cursor + 1 = Len(twitter_tasks)
       IN /\ soc_cursor' = soc_cursor + 1
          /\ IF Get(t, "type", JsonNull) = "post_tweet"
             THEN \E sent \in BOOLEAN :
                     LET out == post_tweet(soc_attrs, sent) IN
                     IF out.kind = "raise"
                     THEN soc_phase' = "raised" /\ UNCHANGED soc_results
                     ELSE /\ soc_results' = Append(soc_results, out.value)
                          /\ soc_phase' = IF last THEN "returned" ELSE "running"
             ELSE /\ soc_results' = Append(soc_results,
                                       [platform |-> "twitter", status |-> "error",
                                        error |-> "Unknown task type"])
                  /\ soc_phase' = IF last THEN "returned" ELSE "running"
    /\ UNCHANGED <<social_configs, soc_attrs>>
    /\ UNCHANGED notSoc

\* post_tweet called on a constructed object.
SocPostTweet ==
    /\ component = "social_bots"
    /\ soc_phase = "constructed"
    /\ \E sent \in BOOLEAN :
          LET out == post_tweet(soc_attrs, sent) IN
          IF out.kind = "raise"
          THEN soc_phase' = "raised" /\ UNCHANGED soc_results
          ELSE soc_phase' = "returned" /\ soc_results' = <<out.value>>
    /\ UNCHANGED <<social_configs, soc_attrs, soc_cursor>>
    /\ UNCHANGED notSoc

\* ================================================================== system
Components == {"api", "web_scraper", "rpa", "browser", "cli", "social_bots"}

Init ==
    /\ component \in Components
    /\ ApiInit
    /\ WsInit
    /\ SeqInit
    /\ CliInit
    /\ SocInit

Next ==
    \/ SocConstruct
    \/ SocRun
    \/ SocTwitterStep
    \/ SocPostTweet
    \/ Construct
    \/ StartRun
    \/ \E i \in Units : Start(i)
    \/ \E i \in Units : Resume(i)
    \/ \E i \in Units : PacingDone(i)
    \/ \E i \in Units : RequestReply(i)
    \/ \E i \in Units : RequestFault(i)
    \/ \E i \in Units : BackoffDone(i)
    \/ Gather
    \/ Shutdown
    \/ WsConstruct
    \/ WsRun
    \/ WsDispatch
    \/ StaticReply
    \/ StaticFault
    \/ StaticBackoffDone
    \/ \E i \in DOMAIN fetch : FetchStart(i)
    \/ \E i \in DOMAIN fetch : FetchReply(i)
    \/ \E i \in DOMAIN fetch : FetchFault(i)
    \/ \E i \in DOMAIN fetch : FetchBackoffDone(i)
    \/ ScrapeAsyncGather
    \/ ScrapeJsHeavy
    \/ RpaRun
    \/ RpaStep
    \/ BrowserRun
    \/ BrowserStep
    \/ Main
    \/ RunWebScraper
    \/ RunApiAutomation
    \/ RunBrowserAutomation
    \/ RunRpaTasks
    \/ RunSocialBots
    \/ DaemonWake
    \/ CliShutdown

Spec == Init /\ [][Next]_vars

\* The steps the event loop takes by itself once run_async is running: ready
\* tasks are run, sleeps end, every request ends with a reply or a fault, and
\* gather completes.
Progress ==
    \/ \E i \in Units : Start(i)
    \/ \E i \in Units : Resume(i)
    \/ \E i \in Units : PacingDone(i)
    \/ \E i \in Units : RequestReply(i)
    \/ \E i \in Units : RequestFault(i)
    \/ \E i \in Units : BackoffDone(i)
    \/ Gather

\* The API runner alone, constructed with a concurrency of at least 1.
ApiInitAdmitting ==
    /\ Init
    /\ component = "api"
    /\ Get(config, "concurrency", DefaultConcurrency) >= 1

ApiNext ==
    \/ Construct
    \/ StartRun
    \/ \E i \in Units : Start(i)
    \/ \E i \in Units : Resume(i)
    \/ \E i \in Units : PacingDone(i)
    \/ \E i \in Units : RequestReply(i)
    \/ \E i \in Units : RequestFault(i)
    \/ \E i \in Units : BackoffDone(i)
    \/ Gather
    \/ Shutdown

SpecFair == ApiInitAdmitting /\ [][ApiNext]_vars /\ WF_vars(Progress)


\* ---------------------------------------------------------------------
\* Properties
\* ---------------------------------------------------------------------
Started == DOMAIN pc

InsideMakeRequest == { i \in Started : pc[i] \in {"pacing", "request", "backoff"} }

AllAttemptsFailed(i) ==
    /\ opLog[i] # <<>>
    /\ \A k \in 1..Len(opLog[i]) : opLog[i][k].kind = "failure"

LastAttemptResult(i) == opLog[i][Len(opLog[i])]

\* Attempts begun by unit i: those that ended plus one still under way.
AttemptsBegun(i) ==
    Len(opLog[i]) + (IF pc[i] \in {"pacing", "request"} THEN 1 ELSE 0)

\* C1: when run_async has returned, the list has one outcome per endpoint and
\* the outcome at index i is the outcome of the task of endpoint i (it carries
\* endpoint i's url), whatever order the tasks finished in; an empty batch
\* gives the empty list.
C1_ResultsAlignedWithEndpoints ==
    phase = "returned" =>
        /\ Len(results) = Len(endpoints)
        /\ \A i \in Units :
              /\ results[i] = Process(task[i])
              /\ "url" \in DOMAIN results[i] => results[i].url = Url(i)

C1_Witness ==
    /\ phase = "returned"
    /\ Len(endpoints) = 2
    /\ doneOrder = <<2, 1>>
    /\ \A i \in Units : "url" \in DOMAIN results[i]

\* C2: for every concurrency >= 1, the units inside make_request (pacing,
\* awaiting the reply or backing off) never outnumber the concurrency.
C2_ConcurrencyCap ==
    concurrency >= 1 => Cardinality(InsideMakeRequest) <= concurrency

C2_Witness ==
    /\ concurrency >= 1
    /\ Cardinality(InsideMakeRequest) = concurrency
    /\ \E i \in Started : pc[i] = "waiting"

\* C3: a unit whose every attempt raised ends with an error record returned
\* by make_request (the fault does not leave make_request), run_async does not
\* raise because of it, and in the returned list every unit whose last attempt
\* got a reply holds its success record.
C3_FaultContained ==
    /\ \A i \in Started :
          (pc[i] = "done" /\ AllAttemptsFailed(i)) =>
              task[i] = Returned(ErrorRecord(Url(i), LastAttemptResult(i).cause))
    /\ phase = "raised" => concurrency < 0
    /\ phase = "returned" =>
          \A i \in Units :
              /\ AllAttemptsFailed(i) => IsError(results[i]) /\ results[i].url = Url(i)
              /\ (opLog[i] # <<>> /\ LastAttemptResult(i).kind = "response") =>
                    results[i] = SuccessRecord(Url(i), LastAttemptResult(i).status)

C3_Witness ==
    /\ phase = "returned"
    /\ \E i, j \in Units :
          /\ AllAttemptsFailed(i)
          /\ Len(opLog[i]) >= 2
          /\ opLog[j] # <<>>
          /\ LastAttemptResult(j).kind = "response"

\* C4: an attempt that got a reply is the unit's last attempt: the unit is
\* finished with the success record of that reply, and the operation was
\* invoked exactly as many times as the number of that attempt, which is
\* within the retry limit.
C4_NoAttemptAfterSuccess ==
    \A i \in Started :
        \A k \in 1..Len(opLog[i]) :
            opLog[i][k].kind = "response" =>
                /\ k = Len(opLog[i])
                /\ k = attempt[i] + 1
                /\ k <= retry_count
                /\ pc[i] = "done"
                /\ task[i] = Returned(SuccessRecord(Url(i), opLog[i][k].status))

C4_Witness ==
    \E i \in Started :
        /\ Len(opLog[i]) = 2
        /\ opLog[i][1].kind = "failure"
        /\ opLog[i][2].kind = "response"
        /\ pc[i] = "done"

\* C5: the attempts of a unit never exceed the retry limit, and a unit whose
\* every attempt failed ends with an error record after exactly retry-limit
\* attempts.
C5_AttemptsWithinRetryLimit ==
    \A i \in Started :
        /\ retry_count >= 0 => AttemptsBegun(i) <= retry_count
        /\ (pc[i] = "done" /\ AllAttemptsFailed(i)) =>
              /\ Len(opLog[i]) = retry_count
              /\ task[i].kind = "return"
              /\ IsError(task[i].value)

C5_Witness ==
    \E i \in Started :
        /\ pc[i] = "done"
        /\ AllAttemptsFailed(i)
        /\ retry_count >= 2
        /\ Len(opLog[i]) = retry_count
        /\ IsError(task[i].value)

\* C6: every make_request invocation ends in a success record or an error
\* record, for every retry limit >= 0: every index of the returned list holds
\* one or the other.  (Violated: with retry limit 0 the loop body never runs
\* and make_request returns None.)
C6_EveryOutcomeIsARecord ==
    (phase = "returned" /\ retry_count >= 0) =>
        \A i \in Units : IsSuccess(results[i]) \/ IsError(results[i])

\* C7: run_async has returned only if every task has finished: no unit is
\* still created, waiting, woken or inside make_request, and the list holds an
\* outcome for every endpoint.
C7_ReturnsOnlyWhenAllTerminal ==
    phase = "returned" =>
        /\ Started = Units
        /\ \A i \in Units : pc[i] = "done" /\ task[i].kind # "pending"
        /\ Len(results) = Len(endpoints)
        /\ Len(doneOrder) = Len(endpoints)

C7_Witness ==
    /\ phase = "returned"
    /\ Len(endpoints) = 2
    /\ concurrency = 1
    /\ \E i \in Units : Len(opLog[i]) >= 2

\* Unit j holds a slot while retrying: it is backing off, or it is in an
\* attempt after the first.
Retrying(j) ==
    \/ pc[j] = "backoff"
    \/ pc[j] \in {"pacing", "request"} /\ attempt[j] >= 1

\* C8 as stated: a failing unit never delays the admission of another unit,
\* so no unit waits for a slot while a slot holder retries or backs off.
\* (Violated: the slot is held through the whole of make_request.)
C8_NoUnitWaitsBehindARetry ==
    \A i, j \in Started : ~(pc[i] = "waiting" /\ Retrying(j))

\* Unit j's attempt fails in this step.
FailsNow(j) ==
    /\ Len(opLog'[j]) = Len(opLog[j]) + 1
    /\ opLog'[j][Len(opLog'[j])].kind = "failure"

\* C8 as amended: a step in which a unit fails an attempt never cancels
\* another unit and leaves every other unit's attempts and outcome as they
\* were; the failing unit keeps its slot while it retries and backs off, and
\* when it is exhausted it releases the slot, which admits the first waiting
\* unit.
C8_FailureOnlyHoldsItsOwnSlot ==
    [][ \A j \in Started :
          FailsNow(j) =>
            /\ \A i \in Started \ {j} :
                  /\ attempt'[i] = attempt[i]
                  /\ opLog'[i] = opLog[i]
                  /\ task'[i] = task[i]
                  /\ \/ pc'[i] = pc[i]
                     \/ /\ pc[i] = "waiting"
                        /\ pc'[i] = "woken"
                        /\ pc'[j] = "done"
                        /\ i = Head(waiters)
            /\ pc'[j] \in {"backoff", "done"}
            /\ pc'[j] = "backoff" => value' = value /\ waiters' = waiters
            /\ (pc'[j] = "done" /\ waiters # <<>>) =>
                  /\ pc'[Head(waiters)] = "woken"
                  /\ waiters' = Tail(waiters)
                  /\ value' = value
            /\ (pc'[j] = "done" /\ waiters = <<>>) => value' = value + 1
      ]_vars

C8_Witness ==
    \E i, j \in Started :
        /\ pc[i] = "woken"
        /\ pc[j] = "done"
        /\ AllAttemptsFailed(j)
        /\ Len(opLog[j]) >= 2

\* The executor configuration the object would run with is valid.
ValidConfig ==
    /\ Get(config, "concurrency", DefaultConcurrency) > 0
    /\ Get(config, "retry", DefaultRetry) >= 0
    /\ LET d == Get(config, "delay_range", <<DefaultDelayMin, DefaultDelayMax>>)
       IN 0 <= d[1] /\ d[1] <= d[2]

\* C9: an invalid configuration fails at construction: the object is never
\* constructed, no unit is started, and nothing is raised later.
\* (Violated: __init__ validates nothing.)
C9_InvalidConfigFailsConstruction ==
    ~ValidConfig => phase = "config"

\* C10: on a shutdown signal an attempt in flight runs to the end (it ends
\* with a reply or a failure, never cut short), and once the batch is
\* cancelled no attempt is started or recorded.
\* (Violated: the handler exits the interpreter, cancelling the tasks.)
C10_InFlightAttemptsFinish ==
    [][ /\ \A i \in Started :
             pc[i] = "request" => pc'[i] \in {"request", "backoff", "done"}
        /\ phase = "exited" => opLog' = opLog /\ pc' = pc
      ]_vars

\* C11: after a cancellation of a running batch the result holds one outcome
\* per endpoint: a unit that had finished keeps its outcome and a unit that
\* had not begun holds an error record with a cancellation cause.
\* (Violated: the process exits and run_async returns no list at all.)
C11_ResultsCompleteAfterCancellation ==
    (phase = "exited" /\ Started # {}) =>
        /\ Len(results) = Len(endpoints)
        /\ \A i \in Units :
              /\ pc[i] = "done" => results[i] = Process(task[i])
              /\ (pc[i] = "cancelled" /\ paces[i] = <<>>) =>
                    IsError(results[i]) /\ results[i].error = "cancelled"

\* C13: every attempt of a unit is preceded by its own pacing sleep, drawn
\* from delay_range: the pacing sleeps of a unit are as many as the attempts it
\* has begun, for the first attempt and for every retry.
C13_PacingBeforeEveryAttempt ==
    \A i \in Started :
        /\ \A k \in 1..Len(paces[i]) : paces[i][k] = delay_range
        /\ pc[i] \in {"pacing", "request"} => Len(paces[i]) = Len(opLog[i]) + 1
        /\ pc[i] \in {"pacing", "request"} => Len(paces[i]) = attempt[i] + 1
        /\ pc[i] \in {"backoff", "done"} => Len(paces[i]) = Len(opLog[i])
        /\ pc[i] \in {"created", "waiting", "woken"} => paces[i] = <<>>

C13_Witness ==
    \E i \in Started :
        /\ pc[i] = "request"
        /\ Len(opLog[i]) = 1
        /\ Len(paces[i]) = 2

\* C14: a reply with a 4xx or 5xx status is a failed attempt, so no unit ends
\* with a success record that carries such a status.
\* (Violated: any reply is returned as a success record, whatever its status.)
C14_ErrorStatusReplyIsAFailure ==
    \A i \in Started :
        (pc[i] = "done" /\ task[i].kind = "return" /\ IsSuccess(task[i].value)) =>
            task[i].value.status < 400

\* C15: the outcome of a unit that exhausted its attempts carries the number
\* of attempts made.
\* (Violated: the error record holds the url and the cause only.)
C15_ExhaustedOutcomeCarriesAttempts ==
    phase = "returned" =>
        \A i \in Units :
            AllAttemptsFailed(i) =>
                /\ "attempts" \in DOMAIN results[i]
                /\ results[i].attempts = Len(opLog[i])

\* The failed attempts in `log` that another attempt may follow under the
\* retry limit r: attempt number a = k - 1 with a <= r - 2.
FailuresBeforeLast(log, r) ==
    Cardinality({ k \in 1..Len(log) : log[k].kind = "failure" /\ k - 1 <= r - 2 })

\* C12: the backoff sleep after failed attempt number a (from 0), a <= retry
\* limit - 2, lasts exactly 2^a: in make_request, in scrape_static and in
\* fetch the k-th backoff of a unit lasts 2^(k-1), and there is one backoff for
\* each failed attempt but the last allowed one.
C12_BackoffIsPowerOfTwo ==
    /\ \A i \in Started :
          /\ Len(backoffs[i]) = FailuresBeforeLast(opLog[i], retry_count)
          /\ \A k \in 1..Len(backoffs[i]) : backoffs[i][k] = 2 ^ (k - 1)
    /\ \A i \in DOMAIN fetch :
          /\ Len(fetch[i].backoffs) = FailuresBeforeLast(fetch[i].log, scraper.retry_count)
          /\ \A k \in 1..Len(fetch[i].backoffs) : fetch[i].backoffs[k] = 2 ^ (k - 1)

C12_Witness ==
    \E i \in Started :
        /\ Len(backoffs[i]) = 3
        /\ pc[i] = "done"
        /\ AllAttemptsFailed(i)

\* C16: with a concurrency of 1 no two units are inside make_request at once;
\* for every concurrency >= 1 a running batch ends (run_async returns, unless
\* the process is shut down), and every unit waiting for a slot is admitted.
C16_AdmissionAndTermination ==
    /\ [](concurrency = 1 => Cardinality(InsideMakeRequest) <= 1)
    /\ (phase = "running" /\ concurrency >= 1) ~> (phase \in {"returned", "exited"})
    /\ \A i \in 1..MaxBatch :
          (phase = "running" /\ concurrency >= 1 /\ i \in Started /\ pc[i] = "waiting")
              ~> (phase = "exited" \/ (i \in Started /\ pc[i] \in {"pacing", "request", "backoff", "done"}))

C16_Witness ==
    /\ phase = "returned"
    /\ concurrency = 1
    /\ Len(endpoints) = 2
    /\ doneOrder = <<1, 2>>
    /\ \A i \in Units : opLog[i] # <<>>

\* C17: a dry run does nothing: the runner hands back the empty list, and no
\* request is issued, no session or driver is opened, no task is executed and
\* no file is written.
\* (Violated: run_api_automation opens a ClientSession before the dry run
\* and writes the output file after it.)
C17_DryRunDoesNothing ==
    /\ (component = "cli" /\ DryRun /\ runs > 0) =>
          cli_results = <<>> /\ effects = {}
    /\ (ws_dry_run /\ ws_phase = "returned") =>
          ws_results = <<>> /\ ws_paces = <<>> /\ fetch = <<>>
    /\ (dry_run /\ seq_phase = "returned") =>
          seq_results = <<>> /\ performed = <<>> /\ driver = "None"

\* C18: with the run command and --once the target is run exactly once and
\* the program then ends, with --daemon or without.
\* (Violated: with --daemon the loop goes on; --once only leaves out the sleep.)
C18_OnceRunsExactlyOnce ==
    (component = "cli" /\ args.command = "run" /\ args.once) =>
        /\ runs <= 1
        /\ runs = 1 => cli_pc = "returned"

\* The type a result of a sequential runner names.
ResultType(r) == IF component = "rpa" THEN r.task ELSE r.type

\* C19: RPATasks.run and BrowserAutomation.run take the tasks one after
\* another in the configured order, result k is the result of task k, and once
\* a task whose stop_on_error flag is set has ended with status 'error' no
\* later task is taken: the run has returned the results up to that task.
C19_SequentialStopOnError ==
    component \in {"rpa", "browser"} =>
        /\ cursor <= Len(tasks)
        /\ Len(seq_results) <= cursor
        /\ \A k \in 1..Len(performed) :
              /\ performed[k] <= cursor
              /\ k > 1 => performed[k - 1] < performed[k]
        /\ \A k \in 1..Len(seq_results) :
              /\ ResultType(seq_results[k]) = tasks[k].type
              /\ ( /\ Get(seq_results[k], "status", JsonNull) = "error"
                   /\ Get(tasks[k], "stop_on_error", FALSE) ) =>
                    /\ cursor = k
                    /\ Len(seq_results) = k
                    /\ seq_phase = "returned"

C19_Witness ==
    /\ component = "browser"
    /\ seq_phase = "returned"
    /\ Len(tasks) = 2
    /\ cursor = 1
    /\ Len(seq_results) = 1
    /\ seq_results[1].status = "error"
    /\ quits = 1

Paginated ==
    /\ component = "web_scraper"
    /\ ~ws_dry_run
    /\ ws_phase \in {"static", "async", "js", "returned", "raised"}
    /\ scraper.mode \in {"static", "js"}

\* C21: for a pagination config with start <= end, handle_pagination returns
\* exactly end - start + 1 URLs in ascending page order, the i-th being
\* base_url followed by '<param>=<start+i>' after '?' (after '&' when base_url
\* already holds a '?'); with no pagination config it returns [base_url].
C21_PaginationUrls ==
    Paginated =>
        LET b == scraper.base_url
            p == scraper.pagination
            param == Get(p, "param", "page")
            start == Get(p, "start", DefaultStartPage)
            end == Get(p, "end", DefaultEndPage)
            sep == IF \E k \in DOMAIN b : b[k] = "?" THEN "&" ELSE "?"
        IN  /\ DOMAIN p = {} => urls = <<b>>
            /\ (DOMAIN p # {} /\ start <= end) =>
                  /\ Len(urls) = end - start + 1
                  /\ \A i \in 0..(end - start) :
                        urls[i + 1] = b \o <<sep, param, "=", start + i>>

\* Two pages of a base_url that already holds a query string.
C21_Witness ==
    /\ Paginated
    /\ Contains(scraper.base_url, "?")
    /\ Len(urls) = 2
    /\ urls[2] = scraper.base_url \o <<"&", "page", "=", 2>>

\* The loop working on url i has ended with every one of its attempts failed.
WsAllAttemptsFailed(i) ==
    /\ fetch[i].pc = "done"
    /\ fetch[i].log # <<>>
    /\ \A k \in DOMAIN fetch[i].log : fetch[i].log[k].kind = "failure"

\* C22: in static mode no single URL's failure terminates the run: a URL that
\* fails on all its retry attempts appears as an error record in the returned
\* list and WebScraper.run returns normally, for one URL as for several.
C22_StaticFailureIsContained ==
    (component = "web_scraper" /\ ws_phase \notin {"config", "idle"}
        /\ scraper.mode = "static") =>
        \A i \in DOMAIN fetch :
            WsAllAttemptsFailed(i) =>
                /\ ws_phase # "raised"
                /\ ws_phase = "returned" => IsError(ws_results[i])

\* The request attempts the loop on url i has begun.
WsAttemptsBegun(i) ==
    Len(fetch[i].log) + (IF fetch[i].pc = "request" THEN 1 ELSE 0)

RECURSIVE WsAttemptsUpTo(_)
WsAttemptsUpTo(n) == IF n = 0 THEN 0 ELSE WsAttemptsUpTo(n - 1) + WsAttemptsBegun(n)

\* C23: in every mode each page request attempt is preceded by a pacing delay
\* drawn from delay_range: a run has slept at least once per attempt begun.
C23_PacingBeforeEveryScrapeAttempt ==
    component = "web_scraper" => WsAttemptsUpTo(Len(fetch)) <= Len(ws_paces)

\* The moves of one unit of run_async: Pending (created, waiting, woken),
\* Executing (pacing, request, backoff), Terminal (done); a shutdown cancels
\* what has not finished.
UnitMoves ==
    {<<"created", "waiting">>, <<"created", "pacing">>, <<"created", "done">>,
     <<"waiting", "woken">>, <<"woken", "pacing">>, <<"woken", "done">>,
     <<"pacing", "request">>, <<"pacing", "backoff">>, <<"pacing", "done">>,
     <<"request", "backoff">>, <<"request", "done">>, <<"backoff", "pacing">>}
        \cup {<<p, "cancelled">> : p \in {"created", "waiting", "woken", "pacing",
                                          "request", "backoff"}}

\* C24: each unit of run_async goes Pending -> Admitted -> Executing ->
\* Terminal: no pacing delay and no attempt before the unit holds a limiter
\* slot, the outcome is written exactly once, and a Terminal unit moves no
\* further and keeps its outcome.
C24_UnitLifecycle ==
    [][\A i \in DOMAIN pc \cap DOMAIN pc' :
          /\ pc[i] \in {"created", "waiting", "woken"} =>
                paces[i] = <<>> /\ opLog[i] = <<>> /\ task[i] = Pending
          /\ pc'[i] # pc[i] => <<pc[i], pc'[i]>> \in UnitMoves
          /\ (pc[i] \in {"created", "waiting", "woken"} /\ pc'[i] \in {"pacing", "done"}) =>
                \/ pc[i] = "woken"
                \/ pc[i] = "created" /\ value >= 1 /\ waiters = <<>>
                      /\ value' = IF pc'[i] = "done" THEN value ELSE value - 1
          /\ (pc[i] = "done") = (task[i] # Pending)
          /\ task[i] # Pending => task'[i] = task[i]
          /\ pc[i] = "done" =>
                /\ pc'[i] = "done"
                /\ opLog'[i] = opLog[i] /\ paces'[i] = paces[i]
                /\ backoffs'[i] = backoffs[i] /\ attempt'[i] = attempt[i]
          /\ phase \in {"returned", "exited"} => results' = results]_vars

\* The second unit of a batch limited to one slot has waited, been admitted
\* and is executing after the first reached Terminal.
C24_Witness ==
    /\ phase = "running"
    /\ concurrency = 1
    /\ Len(endpoints) = 2
    /\ pc[1] = "done" /\ pc[2] = "request"
    /\ opLog[1] # <<>>
    /\ task[1] # Pending /\ task[2] = Pending

\* C25: a fault that escapes make_request for the unit at index i does not
\* abort run_async: the returned list holds an error outcome at index i and
\* the outcomes of the other units at their own indices.
C25_EscapedFaultIsRecorded ==
    \A i \in Started :
        task[i].kind = "raise" =>
            /\ phase # "raised"
            /\ phase = "returned" =>
                  /\ Len(results) = Len(endpoints)
                  /\ results[i] = [error |-> task[i].exc]
                  /\ \A j \in Units \ {i} :
                        task[j].kind = "return" => results[j] = task[j].value

\* A batch returned with a unit whose method is not a string beside a unit
\* that got a reply.
C25_Witness ==
    /\ phase = "returned"
    /\ \E i, j \in Units :
          /\ task[i].kind = "raise"
          /\ IsError(results[i])
          /\ task[j].kind = "return"
          /\ IsSuccess(results[j])

\* C26: a backoff delay occurs only between two attempts: the last allowed
\* attempt is followed by the Exhausted outcome and no sleep, so a unit with
\* retry limit r that always fails sleeps in backoff exactly r - 1 times.
C26_BackoffOnlyBetweenAttempts ==
    \A i \in Started :
        /\ pc[i] = "backoff" => Len(opLog[i]) < retry_count
        /\ (pc[i] = "done" /\ opLog[i] # <<>>) =>
              Len(backoffs[i]) = Len(opLog[i]) - 1
        /\ (pc[i] = "done" /\ AllAttemptsFailed(i)) =>
              /\ Len(opLog[i]) = retry_count
              /\ Len(backoffs[i]) = retry_count - 1
              /\ task[i].kind = "return" /\ IsError(task[i].value)

\* A unit that failed on each of several allowed attempts has finished.
C26_Witness ==
    \E i \in Started :
        /\ pc[i] = "done"
        /\ AllAttemptsFailed(i)
        /\ retry_count = LongRetry
        /\ Len(backoffs[i]) = LongRetry - 1

\* The attempts of unit i have not all failed with one cause.
DifferentCauses(i) ==
    \E k \in DOMAIN opLog[i] : opLog[i][k].cause # LastAttemptResult(i).cause

\* C27: when the attempts of a unit fail with different causes, the error
\* outcome carries the cause of the last failed attempt.
C27_ErrorCarriesLastCause ==
    \A i \in Started :
        (pc[i] = "done" /\ AllAttemptsFailed(i) /\ DifferentCauses(i)) =>
            /\ task[i] = Returned(ErrorRecord(Url(i), LastAttemptResult(i).cause))
            /\ phase = "returned" => results[i].error = LastAttemptResult(i).cause

\* A returned batch with a unit that timed out first and was refused last.
C27_Witness ==
    /\ phase = "returned"
    /\ \E i \in Units :
          /\ AllAttemptsFailed(i)
          /\ opLog[i][1].cause = "TimeoutError"
          /\ LastAttemptResult(i).cause = "ClientError"
          /\ results[i].error = "ClientError"

\* C28: work items are immutable once submitted: make_request and run_async
\* leave the endpoints list (length, order, contents) and every descriptor in
\* it unchanged across all attempts and retries.
C28_EndpointsImmutable ==
    [][(component = "api" /\ phase # "config") =>
          /\ endpoints' = endpoints
          /\ endpoints = Get(config, "endpoints", <<>>)
          /\ config' = config]_vars

\* A batch of two has returned after a retry, its descriptors as configured.
C28_Witness ==
    /\ phase = "returned"
    /\ Len(endpoints) = 2
    /\ \E i \in Units : Len(opLog[i]) >= 2
    /\ endpoints = config.endpoints
    /\ \E i \in Units : "method" \notin DOMAIN endpoints[i]

\* A real run of the RPA runner over tasks none of which has stop_on_error set.
RpaRunWithoutStop ==
    /\ component = "rpa"
    /\ ~dry_run
    /\ \A k \in DOMAIN tasks : ~Get(tasks[k], "stop_on_error", FALSE)

\* C29: in RPATasks.run, when no task has stop_on_error set, every task is
\* executed exactly once in order and the returned list has one result per
\* task, result i belonging to task i, whatever the statuses; at every point
\* of the run the results are the results of the tasks executed so far.
C29_EveryTaskOnceInOrder ==
    [][RpaRunWithoutStop =>
          /\ Len(seq_results) = cursor
          /\ \A k \in 1..cursor : seq_results[k].task = tasks[k].type
          /\ seq_phase' = "returned" => cursor' = Len(tasks)
          /\ seq_phase' = "running" => cursor' < Len(tasks)
          /\ (cursor' # cursor \/ seq_results' # seq_results) =>
                /\ seq_phase = "running"
                /\ cursor' = cursor + 1
                /\ Len(seq_results') = cursor + 1
                /\ \A k \in 1..cursor : seq_results'[k] = seq_results[k]
                /\ seq_results'[cursor + 1] = execute_task(tasks[cursor + 1], fs).result]_vars

\* Two tasks without the flag, the first failed and the second skipped, and
\* the run has returned both results.
C29_Witness ==
    /\ RpaRunWithoutStop
    /\ seq_phase = "returned"
    /\ Len(tasks) = 2
    /\ Len(seq_results) = 2
    /\ seq_results[1].status = "error"
    /\ seq_results[2].status = "skipped"

\* make_request run on its own for descriptor i from attempt a (from 0) on,
\* the attempts ending as the unit's log says: the value it returns and the
\* attempts it makes.
RECURSIVE Replay(_, _)
Replay(i, a) ==
    LET o == opLog[i][a + 1] IN
    IF o.kind = "response"
    THEN [value |-> SuccessRecord(Url(i), o.status), attempts |-> a + 1]
    ELSE IF a < retry_count - 1
    THEN Replay(i, a + 1)
    ELSE [value |-> ErrorRecord(Url(i), o.cause), attempts |-> a + 1]

\* What running the items one after another in input order puts at index i.
SequentialOutcome(i) ==
    IF ~MethodIsString(i) THEN [value |-> [error |-> "AttributeError"], attempts |-> 0]
    ELSE IF retry_count <= 0 THEN [value |-> NoneValue, attempts |-> 0]
    ELSE Replay(i, 0)

\* C30: the batch result of run_async does not depend on the interleaving or
\* on the concurrency value: with the outcomes of each item's attempts fixed,
\* every schedule and every concurrency >= 1 return the list that running the
\* items one after another in input order returns.
C30_ResultIndependentOfSchedule ==
    (phase = "returned" /\ concurrency >= 1) =>
        /\ Len(results) = Len(endpoints)
        /\ \A i \in Units :
              /\ results[i] = SequentialOutcome(i).value
              /\ Len(opLog[i]) = SequentialOutcome(i).attempts

\* Two units ran side by side, the second finished first, and the batch has
\* returned.
C30_Witness ==
    /\ phase = "returned"
    /\ concurrency >= 2
    /\ doneOrder = <<2, 1>>
    /\ IsSuccess(results[1])
    /\ IsError(results[2])
    /\ Len(opLog[2]) >= 2

\* ---------------------------------------------------------------------------
\* C31..C36
\* ---------------------------------------------------------------------------

\* The units of the running batch whose task has not ended.
Unfinished == { i \in Started : pc[i] \notin {"done", "cancelled"} }

\* C31: run_async never deadlocks: for every configuration the constructor
\* accepts and every non-empty batch, no state is reached in which all
\* unfinished units wait for a limiter slot while no unit holds one.
\* (Violated: the constructor accepts concurrency 0, and Semaphore(0) admits
\* nobody.)
C31_NoDeadlock ==
    ~( /\ phase = "running"
       /\ Unfinished # {}
       /\ \A i \in Unfinished : pc[i] = "waiting" )

\* The units that release() has handed a slot to and that have not resumed:
\* the semaphore's own counter still counts their slot as free until they do.
Woken == { i \in Started : pc[i] = "woken" }

\* The slots held: the limit less the semaphore's counter.
HeldSlots == concurrency - (value + Cardinality(Woken))

\* C32: every limiter slot acquired in run_async is released exactly once,
\* also when make_request raises: the number of held slots is always between
\* 0 and concurrency, equals the number of units inside make_request, and is
\* 0 when run_async returns.
C32_SlotsHeldAndReleased ==
    (phase \in {"running", "returned"} /\ concurrency >= 0) =>
        /\ 0 <= HeldSlots /\ HeldSlots <= concurrency
        /\ 0 <= value /\ value <= concurrency
        /\ HeldSlots = Cardinality(InsideMakeRequest)
        /\ phase = "returned" => HeldSlots = 0 /\ value = concurrency

\* A batch has returned after one unit raised out of make_request and
\* another made an attempt, with several slots to hold.
C32_Witness ==
    /\ phase = "returned"
    /\ concurrency >= 2
    /\ value = concurrency
    /\ \E i, j \in Units : task[i].kind = "raise" /\ opLog[j] # <<>>

\* The method of descriptor i is a string that is no supported method.
Unsupported(i) == MethodIsString(i) /\ Method(i) \notin SupportedMethods

\* C34: an endpoint with an unsupported method never has a request issued; it
\* is treated like any failed attempt (pacing delay, retries up to the retry
\* limit with backoff) and ends with an error record at its own index.
\* (Violated: with a retry limit of 0 or less it ends with None, as in C6.)
C34_UnsupportedMethodEndsInError ==
    \A i \in Started :
        Unsupported(i) =>
            /\ pc[i] # "request"
            /\ \A k \in DOMAIN opLog[i] : opLog[i][k] = Failure("ValueError")
            /\ Len(opLog[i]) <= Len(paces[i])
            /\ pc[i] = "done" =>
                  /\ task[i] = Returned(ErrorRecord(Url(i), "ValueError"))
                  /\ Len(backoffs[i]) = Len(opLog[i]) - 1
            /\ phase = "returned" => results[i] = ErrorRecord(Url(i), "ValueError")

\* C35: in BrowserAutomation.run, whenever the driver was initialised it is
\* quit exactly once before run is left, whatever the tasks' outcome (success,
\* error, stop on error, an exception escaping a task); when initialisation
\* fails no task is executed and the result list is empty.
C35_DriverQuitOnce ==
    [][(component = "browser" /\ ~dry_run) =>
          /\ quits' <= 1
          /\ seq_phase' = "running" => driver' = "live" /\ quits' = 0
          /\ (seq_phase' \in {"returned", "raised"} /\ (driver = "live" \/ driver' # "None")) =>
                driver' = "quit" /\ quits' = 1
          /\ (seq_phase' \in {"returned", "raised"} /\ driver' = "None") => quits' = 0
          /\ (seq_phase = "constructed" /\ seq_phase' # "running" /\ tasks # <<>>) =>
                /\ cursor' = 0
                /\ performed' = <<>>
                /\ seq_results' = <<>>]_vars

\* An exception escaped the second task of a run whose driver was live, and
\* run was left with the driver quit once.
C35_Witness ==
    /\ component = "browser"
    /\ seq_phase = "raised"
    /\ cursor = 2
    /\ Len(seq_results) = 1
    /\ driver = "quit"
    /\ quits = 1

\* C33: every ClientSession opened by APIAutomation is closed by the time the
\* API run finishes: after run_api_automation has completed no session that
\* was opened remains unclosed.
\* (Violated: run enters the context again, and the session opened by
\* run_api_automation is dropped without being closed.)
C33_EverySessionClosed ==
    component = "cli" => \A k \in DOMAIN sessions : sessions[k] = "closed"

\* The object holds no Twitter client: there was no Twitter config, or the
\* construction of the client failed in init_bots.
TwitterNotInitialised ==
    "twitter_client" \notin DOMAIN soc_attrs \/ soc_attrs.twitter_client = "None"

\* C36: post_tweet never raises: when the Twitter client was not initialised
\* it returns an error record with 'Twitter API not initialized', so
\* run_twitter_tasks still returns one result per task.
\* (Violated: __init__ sets twitter_api, post_tweet reads twitter_client,
\* which does not exist unless init_bots built the client.)
C36_PostTweetNeverRaises ==
    (component = "social_bots" /\ soc_phase \notin {"config", "idle"}) =>
        /\ soc_phase # "raised"
        /\ (TwitterNotInitialised /\ soc_phase = "returned" /\ soc_cursor > 0) =>
              /\ Len(soc_results) = Len(twitter_tasks)
              /\ \A k \in DOMAIN soc_results :
                    twitter_tasks[k].type = "post_tweet" => soc_results[k] = NotInitialized

====
